---- MODULE Spec2Model ----
(***************************************************************************)
(* naca4(m, p, t, c, num_points) of naca4.py: the NACA 4-digit airfoil     *)
(* coordinate generator, as a state machine that steps through the         *)
(* statements of the function (lines 26-45), one call after another.       *)
(*                                                                         *)
(* Numbers are binary floating-point values with round-to-nearest-even,    *)
(* as Python's float and numpy's float64 are, with a significand of        *)
(* Precision bits instead of 53 and no exponent limits (no overflow to     *)
(* infinity, no underflow to zero).  Zero has no sign.  NaN and the two    *)
(* infinities are values.  The arguments m, p, t, c are Python numbers:    *)
(* a Python division by zero raises ZeroDivisionError, a numpy division    *)
(* by zero gives NaN or an infinity.                                      *)
(***************************************************************************)
EXTENDS Integers, Sequences, FiniteSets, TLC

VARIABLES
    globals,  \* the module's names NACA, m, p, t (lines 64-69)
    args,     \* the arguments of the call in progress: m, p, t, c, n
    pc,       \* the line the call is at, or "done", or "raised"
    frame,    \* the locals bound so far: name -> array
    where,    \* the arguments of the latest np.where: cond, a, b
    ret,      \* what the call gave: nothing yet, a return value, an exception
    calls     \* the calls finished so far, oldest first: their args and ret

vars == <<globals, args, pc, frame, where, ret, calls>>

\* ------------------------------------------------------------ floats

\* Bits of the significand (53 in binary64).
Precision == 14

Pow2(k) == 2 ^ k

NaN == [k |-> "nan", s |-> 0, m |-> 0, e |-> 0]
Inf(sg) == [k |-> "inf", s |-> sg, m |-> 0, e |-> 0]
Zero == [k |-> "fin", s |-> 1, m |-> 0, e |-> 0]
\* The finite value sg * mant * 2^ex, mant of exactly Precision bits.
Fin(sg, mant, ex) == [k |-> "fin", s |-> sg, m |-> mant, e |-> ex]

IsNaN(a) == a.k = "nan"
IsInf(a) == a.k = "inf"
IsFin(a) == a.k = "fin"
IsZero(a) == a.k = "fin" /\ a.m = 0

RECURSIVE BitLen(_)
BitLen(n) == IF n = 0 THEN 0 ELSE 1 + BitLen(n \div 2)

\* sg * n * 2^ex rounded to the nearest value of Precision bits, ties to even.
Round(sg, n, ex) ==
    IF n = 0 THEN Zero
    ELSE LET b == BitLen(n) IN
         IF b <= Precision
         THEN Fin(sg, n * Pow2(Precision - b), ex - (Precision - b))
         ELSE LET sh == b - Precision
                  q == n \div Pow2(sh)
                  r == n % Pow2(sh)
                  half == Pow2(sh - 1)
                  q2 == IF r > half \/ (r = half /\ q % 2 = 1) THEN q + 1 ELSE q
              IN  IF q2 = Pow2(Precision)
                  THEN Fin(sg, Pow2(Precision - 1), ex + sh + 1)
                  ELSE Fin(sg, q2, ex + sh)

\* An integer literal, or int -> float.
FromInt(i) == IF i < 0 THEN Round(-1, -i, 0) ELSE Round(1, i, 0)

Neg(a) == IF IsNaN(a) \/ IsZero(a) THEN a ELSE [a EXCEPT !.s = -a.s]
Abs(a) == IF IsNaN(a) THEN a ELSE [a EXCEPT !.s = 1]

\* a * b
Mul(a, b) ==
    IF IsNaN(a) \/ IsNaN(b) THEN NaN
    ELSE IF IsInf(a) \/ IsInf(b)
         THEN IF IsZero(a) \/ IsZero(b) THEN NaN ELSE Inf(a.s * b.s)
         ELSE Round(a.s * b.s, a.m * b.m, a.e + b.e)

\* a + b
Add(a, b) ==
    IF IsNaN(a) \/ IsNaN(b) THEN NaN
    ELSE IF IsInf(a) THEN (IF IsInf(b) /\ b.s # a.s THEN NaN ELSE a)
    ELSE IF IsInf(b) THEN b
    ELSE IF IsZero(a) THEN b
    ELSE IF IsZero(b) THEN a
    ELSE LET hi == IF a.e >= b.e THEN a ELSE b
             lo == IF a.e >= b.e THEN b ELSE a
             d == hi.e - lo.e
         IN  IF d > Precision + 1 THEN hi
             ELSE LET sum == hi.s * hi.m * Pow2(d) + lo.s * lo.m
                  IN  IF sum < 0 THEN Round(-1, -sum, lo.e) ELSE Round(1, sum, lo.e)

\* a - b
Sub(a, b) == Add(a, Neg(b))

\* a / b of numpy (and of Python, whose zero divisor is refused before).
Div(a, b) ==
    IF IsNaN(a) \/ IsNaN(b) THEN NaN
    ELSE IF IsInf(a) THEN (IF IsInf(b) THEN NaN ELSE Inf(a.s * b.s))
    ELSE IF IsInf(b) THEN Zero
    ELSE IF IsZero(b) THEN (IF IsZero(a) THEN NaN ELSE Inf(a.s))
    ELSE IF IsZero(a) THEN Zero
    ELSE LET num == a.m * Pow2(Precision + 1)
             q == num \div b.m
             sticky == IF num % b.m = 0 THEN 0 ELSE 1
         IN  Round(a.s * b.s, 2 * q + sticky, a.e - b.e - Precision - 2)

\* a ** k for a small integer k >= 1, by repeated multiplication.
RECURSIVE Pow(_, _)
Pow(a, k) == IF k = 1 THEN a ELSE Mul(Pow(a, k - 1), a)

\* a <= b, a < b, a == b of floats: False when either is NaN.
Le(a, b) ==
    IF IsNaN(a) \/ IsNaN(b) THEN FALSE
    ELSE LET d == Sub(a, b) IN IsNaN(d) \/ IsZero(d) \/ d.s = -1
Lt(a, b) == Le(a, b) /\ a # b
Eq(a, b) == ~IsNaN(a) /\ ~IsNaN(b) /\ a = b

RECURSIVE IsqrtIter(_, _, _)
IsqrtIter(n, lo, hi) ==
    IF lo = hi THEN lo
    ELSE LET mid == (lo + hi + 1) \div 2
         IN  IF mid * mid <= n THEN IsqrtIter(n, mid, hi) ELSE IsqrtIter(n, lo, mid - 1)
\* The largest r with r * r <= n, for n < 2^(2 * Precision + 2).
Isqrt(n) == IsqrtIter(n, 0, Pow2(Precision + 1) - 1)

\* np.sqrt: the correctly rounded root; NaN for a negative number.
Sqrt(a) ==
    IF IsNaN(a) THEN NaN
    ELSE IF IsZero(a) THEN Zero
    ELSE IF a.s = -1 THEN NaN
    ELSE IF IsInf(a) THEN a
    ELSE LET k == IF (a.e - (Precision + 1)) % 2 = 0 THEN Precision + 1 ELSE Precision + 2
             wide == a.m * Pow2(k)
             r == Isqrt(wide)
             sticky == IF r * r = wide THEN 0 ELSE 1
         IN  Round(1, 2 * r + sticky, ((a.e - k) \div 2) - 1)

One == FromInt(1)
Two == FromInt(2)

\* A decimal literal n/d (0.2969 is Dec(2969, 10000)), and int / int of Python.
Dec(n, d) == Div(FromInt(n), FromInt(d))

\* An angle in (-pi/2, pi/2) is held by its tangent.
\* np.arctan
Arctan(s) == [tan |-> s]
\* np.cos of such an angle: cos(arctan(s)) = 1 / sqrt(1 + s*s), which is
\* exactly 1 at 0; at +-pi/2 the rounded angle has a tiny positive cosine.
Cos(th) ==
    IF IsNaN(th.tan) THEN NaN
    ELSE IF IsInf(th.tan) THEN Fin(1, Pow2(Precision - 1), -53 - Precision)
    ELSE Div(One, Sqrt(Add(One, Mul(th.tan, th.tan))))

\* ------------------------------------------------------------ numpy arrays

\* An array is a sequence of floats; index i of Python is index i + 1 here.
Map1(F(_), a) == [i \in 1..Len(a) |-> F(a[i])]

\* np.linspace with endpoint=False: the stop value is left out.
LinspaceNoEndpoint(start, stop, num) ==
    LET step == Div(Sub(stop, start), FromInt(num))
    IN  [j \in 1..num |-> Add(Mul(FromInt(j - 1), step), start)]

\* np.linspace(start, stop, num) with endpoint=True.
Linspace(start, stop, num) ==
    LET div == num - 1
        delta == Sub(stop, start)
        step == Div(delta, FromInt(div))
        raw(i) == IF div > 0
                  THEN IF IsZero(step)
                       THEN Mul(Div(FromInt(i), FromInt(div)), delta)
                       ELSE Mul(FromInt(i), step)
                  ELSE Mul(FromInt(i), delta)
    IN  [j \in 1..num |-> IF num > 1 /\ j = num THEN stop ELSE Add(raw(j - 1), start)]

\* np.empty_like(a): memory as the arrays freed last left it.
EmptyLike(a) ==
    IF calls # <<>> /\ calls[Len(calls)].ret.kind = "return"
                    /\ Len(calls[Len(calls)].ret.y_upper) = Len(a)
    THEN calls[Len(calls)].ret.y_upper
    ELSE [i \in 1..Len(a) |-> Zero]

\* np.full_like(a, m)
FullLikeM(a) == [i \in 1..Len(a) |-> args.m]

\* np.zeros_like(a)
ZerosLike(a) == [i \in 1..Len(a) |-> Zero]

\* np.where(cond, a, b)
Where(cond, a, b) == [i \in 1..Len(cond) |-> IF cond[i] THEN a[i] ELSE b[i]]

\* ------------------------------------------------------------ naca4

\* Line 27 with the root left out of the first term.
ThicknessAtNoSqrt(t, c, xi) ==
    LET r == Div(xi, c)
        poly == Sub(Add(Sub(Sub(Mul(Dec(2969, 10000), r),
                                Mul(Dec(1260, 10000), r)),
                            Mul(Dec(3516, 10000), Pow(r, 2))),
                        Mul(Dec(2843, 10000), Pow(r, 3))),
                    Mul(Dec(1015, 10000), Pow(r, 4)))
    IN  Mul(Mul(Div(t, Dec(20, 100)), c), poly)

\* Line 27 with the last coefficient of the closed trailing edge, 0.1036.
ThicknessAtClosed(t, c, xi) ==
    LET r == Div(xi, c)
        poly == Sub(Add(Sub(Sub(Mul(Dec(2969, 10000), Sqrt(r)),
                                Mul(Dec(1260, 10000), r)),
                            Mul(Dec(3516, 10000), Pow(r, 2))),
                        Mul(Dec(2843, 10000), Pow(r, 3))),
                    Mul(Dec(1036, 10000), Pow(r, 4)))
    IN  Mul(Mul(Div(t, Dec(20, 100)), c), poly)

\* Line 27, at one station: the thickness distribution.
ThicknessAt(t, c, xi) ==
    LET r == Div(xi, c)
        poly == Sub(Add(Sub(Sub(Mul(Dec(2969, 10000), Sqrt(r)),
                                Mul(Dec(1260, 10000), r)),
                            Mul(Dec(3516, 10000), Pow(r, 2))),
                        Mul(Dec(2843, 10000), Pow(r, 3))),
                    Mul(Dec(1015, 10000), Pow(r, 4)))
    IN  Mul(Mul(Div(t, Dec(20, 100)), c), poly)

\* Line 33: the condition x <= p * c.
IsFore(p, c, xi) == Le(xi, Mul(p, c))

\* Line 34 holding the formula of line 35.
CamberForeSwapped(m, p, c, xi) ==
    LET r == Div(xi, c)
    IN  Mul(Div(m, Pow(Sub(One, p), 2)),
            Sub(Add(Sub(One, Mul(Two, p)), Mul(Mul(Two, p), r)), Pow(r, 2)))

\* Line 34: the camber line ahead of the maximum.
CamberFore(m, p, c, xi) ==
    LET r == Div(xi, c)
    IN  Mul(Div(m, Pow(p, 2)), Sub(Mul(Mul(Two, p), r), Pow(r, 2)))

\* Line 35 with 1 - p for 1 - 2 * p.
CamberAftSlip(m, p, c, xi) ==
    LET r == Div(xi, c)
    IN  Mul(Div(m, Pow(Sub(One, p), 2)),
            Sub(Add(Sub(One, p), Mul(Mul(Two, p), r)), Pow(r, 2)))

\* Line 35: the camber line behind the maximum.
CamberAft(m, p, c, xi) ==
    LET r == Div(xi, c)
    IN  Mul(Div(m, Pow(Sub(One, p), 2)),
            Sub(Add(Sub(One, Mul(Two, p)), Mul(Mul(Two, p), r)), Pow(r, 2)))

\* Line 37: the slope ahead of the maximum.
SlopeFore(m, p, c, xi) ==
    Mul(Div(Mul(Two, m), Pow(p, 2)), Sub(p, Div(xi, c)))

\* Line 38: the slope behind the maximum.
SlopeAft(m, p, c, xi) ==
    Mul(Div(Mul(Two, m), Pow(Sub(One, p), 2)), Sub(p, Div(xi, c)))

\* The divisions as numpy scalars do them: never an exception.
DividesByZeroNever(p) == FALSE

\* Lines 34-35 and 37-38: a Python division m / p**2 or m / (1 - p)**2 by zero.
DividesByZero(p) == IsZero(Pow(p, 2)) \/ IsZero(Pow(Sub(One, p), 2))

\* Line 29: p == 0
IsSymmetric(p) == Eq(p, Zero)

\* Line 43 with the sign of line 42.
LowerAtPlus(yc, yt, th) == Add(yc, Mul(yt, Cos(th)))

\* Line 42, at one station.
UpperAt(yc, yt, th) == Add(yc, Mul(yt, Cos(th)))
\* Line 43, at one station.
LowerAt(yc, yt, th) == Sub(yc, Mul(yt, Cos(th)))

\* ------------------------------------------------------------ state

\* Most stations of a call, and most calls of a run.
MaxN == 5
MaxCalls == 3

\* The arguments tried: m and t as a designator gives them (int / 100), p
\* with the symmetric 0, two camber positions and the degenerate 1, c with
\* the degenerate 0, num_points from 0.
MValues == {Zero, Dec(2, 100)}
PValues == {Zero, Dec(1, 4), Dec(1, 2), One}
TValues == {Zero, Dec(12, 100)}
CValues == {Zero, One, Two}
NValues == 0..MaxN

\* Lines 64-69: the designator and the parameters decoded from it.
Designator == <<0, 0, 1, 2>>
Globals ==
    [NACA |-> Designator,
     m |-> Dec(Designator[1], 100),
     p |-> Dec(Designator[2], 10),
     t |-> Dec(10 * Designator[3] + Designator[4], 100)]

NoFrame == <<>>
NoWhere == [cond |-> <<>>, a |-> <<>>, b |-> <<>>]
NoRet == [kind |-> "none"]
Bound(name) == name \in DOMAIN frame
Bind(f, name, val) == (name :> val) @@ f

\* Line 4: a call binds its parameters in a fresh frame.
Enter(a) ==
    /\ args' = a
    /\ pc' = "L26"
    /\ frame' = NoFrame
    /\ where' = NoWhere
    /\ ret' = NoRet

Init ==
    /\ globals = Globals
    /\ args \in [m : MValues, p : PValues, t : TValues, c : CValues, n : NValues]
    /\ pc = "L26"
    /\ frame = NoFrame
    /\ where = NoWhere
    /\ ret = NoRet
    /\ calls = <<>>

\* Line 26
Line26 ==
    /\ pc = "L26"
    /\ frame' = Bind(frame, "x", Linspace(Zero, args.c, args.n))
    /\ pc' = "L27"
    /\ UNCHANGED <<globals, args, where, ret, calls>>

\* Line 27
Line27 ==
    /\ pc = "L27"
    /\ frame' = Bind(frame, "yt",
                     [i \in 1..Len(frame.x) |-> ThicknessAt(args.t, args.c, frame.x[i])])
    /\ pc' = "L29"
    /\ UNCHANGED <<globals, args, where, ret, calls>>

\* Lines 29-31: the symmetric airfoil.
Line30 ==
    /\ pc = "L29"
    /\ IsSymmetric(args.p)
    /\ frame' = Bind(Bind(frame, "yc", ZerosLike(frame.x)), "dyc_dx", ZerosLike(frame.x))
    /\ pc' = "L40"
    /\ UNCHANGED <<globals, args, where, ret, calls>>

\* Lines 33-35: the camber line, both formulas at every station.
Line33 ==
    /\ pc = "L29"
    /\ ~IsSymmetric(args.p)
    /\ ~DividesByZero(args.p)
    /\ LET n == Len(frame.x)
           cond == [i \in 1..n |-> IsFore(args.p, args.c, frame.x[i])]
           a == [i \in 1..n |-> CamberFore(args.m, args.p, args.c, frame.x[i])]
           b == [i \in 1..n |-> CamberAft(args.m, args.p, args.c, frame.x[i])]
       IN  /\ where' = [cond |-> cond, a |-> a, b |-> b]
           /\ frame' = Bind(frame, "yc", Where(cond, a, b))
    /\ pc' = "L36"
    /\ UNCHANGED <<globals, args, ret, calls>>

\* Lines 33-35 with p = 1: m / (1 - p)**2 raises.
Line33Raise ==
    /\ pc = "L29"
    /\ ~IsSymmetric(args.p)
    /\ DividesByZero(args.p)
    /\ ret' = [kind |-> "raise", exc |-> "ZeroDivisionError"]
    /\ calls' = Append(calls, [args |-> args, ret |-> ret'])
    /\ pc' = "raised"
    /\ UNCHANGED <<globals, args, frame, where>>

\* Lines 36-38: the slope of the camber line.
Line36 ==
    /\ pc = "L36"
    /\ LET n == Len(frame.x)
           cond == [i \in 1..n |-> IsFore(args.p, args.c, frame.x[i])]
           a == [i \in 1..n |-> SlopeFore(args.m, args.p, args.c, frame.x[i])]
           b == [i \in 1..n |-> SlopeAft(args.m, args.p, args.c, frame.x[i])]
       IN  /\ where' = [cond |-> cond, a |-> a, b |-> b]
           /\ frame' = Bind(frame, "dyc_dx", Where(cond, a, b))
    /\ pc' = "L40"
    /\ UNCHANGED <<globals, args, ret, calls>>

\* Line 40
Line40 ==
    /\ pc = "L40"
    /\ frame' = Bind(frame, "theta", Map1(Arctan, frame.dyc_dx))
    /\ pc' = "L42"
    /\ UNCHANGED <<globals, args, where, ret, calls>>

\* Line 42
Line42 ==
    /\ pc = "L42"
    /\ frame' = Bind(frame, "y_upper",
                     [i \in 1..Len(frame.x) |-> UpperAt(frame.yc[i], frame.yt[i], frame.theta[i])])
    /\ pc' = "L43"
    /\ UNCHANGED <<globals, args, where, ret, calls>>

\* Line 43
Line43 ==
    /\ pc = "L43"
    /\ frame' = Bind(frame, "y_lower",
                     [i \in 1..Len(frame.x) |-> LowerAt(frame.yc[i], frame.yt[i], frame.theta[i])])
    /\ pc' = "L45"
    /\ UNCHANGED <<globals, args, where, ret, calls>>

\* The value of line 45.
Result(f) == [kind |-> "return", x |-> f.x, y_upper |-> f.y_upper, y_lower |-> f.y_lower]

\* Line 45
Line45 ==
    /\ pc = "L45"
    /\ ret' = Result(frame)
    /\ calls' = Append(calls, [args |-> args, ret |-> ret'])
    /\ pc' = "done"
    /\ UNCHANGED <<globals, args, frame, where>>

\* The arguments of a later call: the same again, the same with another m,
\* or the NACA 0012 of the module's own call (line 71) on MaxN stations.
LaterArgs ==
    {args} \cup {[args EXCEPT !.m = m2] : m2 \in MValues}
           \cup {[m |-> globals.m, p |-> globals.p, t |-> globals.t, c |-> One, n |-> MaxN]}

\* Line 4, once more: the caller calls naca4 again.
CallAgain ==
    /\ pc \in {"done", "raised"}
    /\ Len(calls) < MaxCalls
    /\ \E a \in LaterArgs : Enter(a)
    /\ UNCHANGED <<globals, calls>>

Next ==
    \/ Line26
    \/ Line27
    \/ Line30
    \/ Line33
    \/ Line33Raise
    \/ Line36
    \/ Line40
    \/ Line42
    \/ Line43
    \/ Line45
    \/ CallAgain

Spec == Init /\ [][Next]_vars

\* ------------------------------------------------------------ properties

\* The call in progress has ended, and has returned.
Ended == pc \in {"done", "raised"}
Returned == pc = "done"

\* c > 0, n >= 2, p in [0, 1).
Valid(a) == Lt(Zero, a.c) /\ a.n >= 2 /\ Le(Zero, a.p) /\ Lt(a.p, One)

\* Floating-point tolerance: a and b differ by at most 16 units in the last
\* place of a number of the size of scale.
Tol == Round(1, 1, 4 - Precision)
Close(a, b, scale) == IsFin(a) /\ IsFin(b) /\ Le(Abs(Sub(a, b)), Mul(Tol, Abs(scale)))
Larger(a, b) == IF Le(Abs(a), Abs(b)) THEN Abs(b) ELSE Abs(a)

\* A float below 1 in magnitude, to four decimal places, in units of 0.0001.
Decimals4(a) ==
    IF a.e >= 0 \/ -a.e > 29 THEN 0
    ELSE LET den == Pow2(-a.e)
             num == a.m * 10000
         IN  a.s * ((num + den \div 2) \div den)

\* The stations that lie exactly on the camber break x = p * c.
AtBreak(i) == Eq(frame.x[i], Mul(args.p, args.c))

C2_Symmetric ==
    (Returned /\ Valid(args) /\ IsSymmetric(args.p)) =>
        \A i \in 1..args.n : Eq(ret.y_upper[i], Neg(ret.y_lower[i]))
C2_Witness ==
    /\ Returned /\ Valid(args) /\ IsSymmetric(args.p)
    /\ args.n >= 3 /\ Lt(Zero, ret.y_upper[2])

\* C3: with valid arguments the leading edge closes: the thickness at the
\* first station is 0 and both surfaces start at 0.
C3_LeadingEdge ==
    (Returned /\ Valid(args)) =>
        /\ frame.yt[1] = Zero
        /\ ret.y_upper[1] = Zero
        /\ ret.y_lower[1] = Zero
C3_Witness ==
    /\ Returned /\ Valid(args)
    /\ ~IsSymmetric(args.p) /\ args.m # Zero /\ args.t # Zero
    /\ frame.yt[2] # Zero /\ frame.yc[2] # Zero

\* C4: for p in (0, 1) and c > 0 the two camber formulas of np.where agree,
\* within floating-point tolerance, at a station on the break x = p * c.
C4_Continuous ==
    (pc = "L36" /\ Lt(Zero, args.c)) =>
        \A i \in 1..Len(frame.x) :
            AtBreak(i) => Close(where.a[i], where.b[i], Larger(where.a[i], where.b[i]))
C4_Witness ==
    /\ pc = "L36" /\ Lt(Zero, args.c) /\ args.m # Zero /\ args.p = Dec(1, 4)
    /\ \E i \in 1..Len(frame.x) :
          /\ AtBreak(i)
          /\ where.a[i] # Zero
          /\ \E j \in 1..Len(frame.x) : ~Close(where.a[j], where.b[j], Larger(where.a[j], where.b[j]))

\* C5: calls with the same arguments give the same return value (or the
\* same exception) whatever was called in between, and no call changes the
\* module's names.
C5_Deterministic ==
    /\ globals = Globals
    /\ \A i, j \in 1..Len(calls) :
          calls[i].args = calls[j].args => calls[i].ret = calls[j].ret
C5_Witness ==
    /\ Len(calls) = 3
    /\ calls[1].args = calls[3].args
    /\ calls[2].args # calls[1].args
    /\ calls[1].ret.kind = "return"
    /\ calls[2].ret.kind = "return"
    /\ calls[1].args.n >= 3
    /\ calls[1].ret # calls[2].ret

\* The arguments of the concrete scenario: m=0, p=0, t=0.12, c=1, n=5.
Naca0012On5 == [m |-> Zero, p |-> Zero, t |-> Dec(12, 100), c |-> One, n |-> 5]
Scenario(units) ==
    (Returned /\ args = Naca0012On5) =>
        /\ ret.x = <<Zero, Dec(1, 4), Dec(1, 2), Dec(3, 4), One>>
        /\ \A i \in 1..5 : Eq(ret.y_lower[i], Neg(ret.y_upper[i]))
        /\ ret.y_upper[2] = ThicknessAt(args.t, args.c, ret.x[2])
        /\ Decimals4(ret.y_upper[2]) = units

\* C6 as stated: in the scenario y_upper at x = 0.25 is 0.0586 to four places.
C6_Original == Scenario(586)
\* C6, amended: in the scenario x = [0, 0.25, 0.5, 0.75, 1], y_lower is
\* -y_upper, and y_upper at x = 0.25 is the thickness there, 0.0594 to four
\* places.
C6_Scenario == Scenario(594)
C6_Witness == Returned /\ args = Naca0012On5 /\ Len(calls) = 1

C8_TrailingEdge ==
    (Returned /\ Valid(args) /\ Lt(Zero, args.t)) =>
        LET scale == Mul(Div(args.t, Dec(20, 100)), args.c)
        IN  /\ Lt(Zero, frame.yt[args.n])
            /\ Close(frame.yt[args.n], Mul(scale, Dec(21, 10000)), scale)
            /\ Lt(ret.y_lower[args.n], ret.y_upper[args.n])
C8_Witness ==
    /\ Returned /\ Valid(args) /\ Lt(Zero, args.t)
    /\ args.c = Two /\ ~IsSymmetric(args.p) /\ args.m # Zero
    /\ frame.dyc_dx[args.n] # Zero

\* C9 as stated: for p in (0, 1), m >= 0 and c > 0 the camber line is
\* highest at the station x = p * c, where it is m * c.
C9_PeakIsMTimesChord ==
    (Returned /\ Valid(args) /\ ~IsSymmetric(args.p) /\ Le(Zero, args.m)) =>
        \A i \in 1..args.n :
            AtBreak(i) =>
                /\ \A j \in 1..args.n : Le(frame.yc[j], frame.yc[i])
                /\ Close(frame.yc[i], Mul(args.m, args.c), Mul(args.m, args.c))

\* C10: with p = 0 the camber line and its slope are zero at every station
\* and the surfaces are yt and -yt, and calls that differ in m alone return
\* the same.
C10_CamberFree ==
    /\ (Returned /\ IsSymmetric(args.p)) =>
          /\ frame.yc = [i \in 1..args.n |-> Zero]
          /\ frame.dyc_dx = [i \in 1..args.n |-> Zero]
          /\ ret.y_upper = frame.yt
          /\ ret.y_lower = Map1(Neg, frame.yt)
    /\ \A i, j \in 1..Len(calls) :
          (/\ IsSymmetric(calls[i].args.p)
           /\ calls[j].args = [calls[i].args EXCEPT !.m = calls[j].args.m])
          => calls[i].ret = calls[j].ret
C10_Witness ==
    /\ Len(calls) >= 2
    /\ IsSymmetric(calls[1].args.p)
    /\ calls[1].args.m # calls[2].args.m
    /\ calls[2].args = [calls[1].args EXCEPT !.m = calls[2].args.m]
    /\ calls[1].args.n >= 3
    /\ calls[1].ret.kind = "return"
    /\ Lt(Zero, calls[1].ret.y_upper[2])
====
